---- MODULE Spec2Model ----
(***************************************************************************)
(* State-machine model of ScryfallCardGolf/card_golf.py: the contest log   *)
(* (TWEET_DATABASE), the per-contest winners files, the wall clock, and    *)
(* one invocation of the script at a time (pc is its position).            *)
(***************************************************************************)
EXTENDS Integers, Sequences, FiniteSets, TLC

\* ---------------------------------------------------------------- bounds
\* Seconds the wall clock runs for, from the model's epoch.
MaxClock == 3
\* Clock seconds in one day (the scale of the model's clock).
SecPerDay == 2
\* Invocations of the script in one behaviour.
MaxRuns == 2
\* Stream items pulled plus URLs tested in one get_results scan.
MaxScanSteps == 2
\* Cards in one Scryfall search response.
MaxCards == 3

\* ------------------------------------------------------------- the clock
\* A wall-clock reading is <<day, sec>>: the date and the time of day.
TimeLess(a, b) == a[1] < b[1] \/ (a[1] = b[1] /\ a[2] < b[2])

\* start + datetime.timedelta(days=1): the same time of day, one date later.
PlusOneDay(t) == <<t[1] + 1, t[2]>>

\* Seconds since the model's epoch; used only to state elapsed time.
Secs(t) == t[1] * SecPerDay + t[2]

\* time.strftime('%Y-%m-%d_%H:%M:%S'): zero-padded fixed-width digits, the
\* date first.  The key is the sequence of its digits (the separators sit
\* at fixed positions and do not affect the order of two keys).
strftime(t) == <<t[1] \div 10, t[1] % 10, t[2]>>

\* datetime.datetime.strptime(key, '%Y-%m-%d_%H:%M:%S')
strptime(k) == <<k[1] * 10 + k[2], k[3]>>

\* Python's str comparison: lexicographic, by character.
RECURSIVE StrLess(_, _)
StrLess(a, b) ==
    IF b = <<>> THEN FALSE
    ELSE IF a = <<>> THEN TRUE
    ELSE IF Head(a) # Head(b) THEN Head(a) < Head(b)
    ELSE StrLess(Tail(a), Tail(b))

\* Variant: the least key instead of the greatest.
MaxKeyMin(db) == CHOOSE k \in DOMAIN db : \A j \in DOMAIN db : j = k \/ StrLess(k, j)

\* max(json_db.keys()) on a non-empty dict (the empty dict raises ValueError,
\* which each caller handles or not: see the callers).
MaxKey(db) == CHOOSE k \in DOMAIN db : \A j \in DOMAIN db : j = k \/ StrLess(j, k)

\* ------------------------------------------------------------ the files
EmptyDb == [k \in {} |-> 0]

\* A JSON file is modelled by the value json.load gives for it; the contest
\* log is a dict from key to entry, and a missing log is the empty dict
\* (load_json_db returns dict() for it; no write ever leaves an empty dict).
\* A winners file is missing when its key is not in DOMAIN winners.

\* write_to_json_db with a dict entry: feeds[strftime(now)] = entry, on the
\* loaded dict or on a new one when the file is missing; then the dump.
WriteDict(feeds, t, e) ==
    [k \in DOMAIN feeds \cup {strftime(t)} |-> IF k = strftime(t) THEN e ELSE feeds[k]]

\* write_to_json_db with a list entry on the file named by key: a missing
\* file becomes the list; an existing file's list is extended by it.
WriteList(files, key, entries) ==
    [k \in DOMAIN files \cup {key} |->
        IF k = key
        THEN (IF key \in DOMAIN files THEN files[key] \o entries ELSE entries)
        ELSE files[k]]

\* ------------------------------------------------------ external inputs
TWEETER_ACCOUNT == "bot"
Users == {TWEETER_ACCOUNT, "alice"}

\* Names of the cards in the card database.
CardNames == {"A", "B", "C"}

\* download_random_cards(2): two different cards, or the same card twice
\* (the draws are independent); which names they are is up to renaming.
RandomPairs == {<<"A", "B">>, <<"A", "A">>}

\* send_tweet's results: the new post's id_str, or the failure value -1.
TweetIds == {1, -1}

Entries == [tweet_id : TweetIds, cards : RandomPairs]

\* Query texts a reply can carry, as character sequences.
Texts == {<<"a">>, <<"o", "r">>, <<"O", "R">>}

\* A search response: Scryfall's error object (no 'total_cards' field; also
\* its answer to a search with no match), or a page of cards.  test_query
\* reads total_cards and, card by card, the names in data: a page is
\* modelled by its total_cards and the set of names its cards carry.
ErrorResp == [error |-> TRUE, total_cards |-> 0, names |-> {}]
Resps == {ErrorResp} \cup
         {r \in [error : {FALSE}, total_cards : 1..MaxCards,
                 names : SUBSET CardNames \ {{}}] :
             Cardinality(r.names) <= r.total_cards}

\* An expanded_url of a reply: whether it contains 'scryfall.com', whether
\* it has a non-blank q parameter, the parameter's first value, and what
\* the search API answers for that query.
NoQuery == <<>>
Urls == {[scryfall |-> FALSE, hasQ |-> FALSE, q |-> NoQuery, resp |-> ErrorResp],
         [scryfall |-> TRUE, hasQ |-> FALSE, q |-> NoQuery, resp |-> ErrorResp]} \cup
        {[scryfall |-> TRUE, hasQ |-> TRUE, q |-> t, resp |-> r] : t \in Texts, r \in Resps}

\* str.lower() and "'or' in text".
LowerChar(c) == IF c = "O" THEN "o" ELSE IF c = "R" THEN "r" ELSE c
Lower(t) == [i \in 1..Len(t) |-> LowerChar(t[i])]
ContainsOr(t) == \E i \in 1..(Len(t) - 1) : t[i] = "o" /\ t[i + 1] = "r"

SeqRange(s) == {s[i] : i \in 1..Len(s)}

\* test_query's outcome: the returned text ('' is <<>>), or the exception
\* that leaves it (only KeyError is caught inside).
Returned(t) == [raised |-> FALSE, text |-> t]
ValueError == [raised |-> TRUE, text |-> <<>>]

\* test_query's read of the log: max_key = max(json_db.keys()) raises
\* ValueError on the empty dict; else valid_cards are the two names of the
\* entry under the maximum key.
LatestCards(db) ==
    IF DOMAIN db = {} THEN [raised |-> TRUE, cards |-> {}]
    ELSE [raised |-> FALSE, cards |-> SeqRange(db[MaxKey(db)].cards)]

\* test_query(user_name, scryfall_url), with what its read of the log gave
\* (the read happens only once the URL and the response have their fields).
test_query(url, latest) ==
    IF ~url.hasQ THEN Returned(<<>>)                  \* KeyError on ['q']
    ELSE IF url.resp.error THEN Returned(<<>>)        \* KeyError on ['total_cards']
    ELSE \* total_cards != 2 is logged only; nothing returns here
         IF latest.raised THEN ValueError             \* max() of no keys
    ELSE IF \E name \in url.resp.names : name \notin latest.cards
         THEN Returned(<<>>)
    ELSE IF ContainsOr(Lower(url.q)) THEN Returned(<<>>)
    ELSE Returned(url.q)

\* ------------------------------------------------------------- the state
VARIABLES
    now,            \* the wall clock
    log,            \* TWEET_DATABASE: key -> contest entry
    winners,        \* the winners files: contest key -> list of results
    posts,          \* send_tweet calls made so far
    runs,           \* invocations started so far
    pc,             \* position of the running invocation ("idle": none)
    args,           \* the invocation's flags
    lastExit,       \* how the last invocation ended
    caller,         \* who called get_results: "cli" (--results), "gate", or "none"
    valid_entries,  \* get_results' list
    steps,          \* items pulled and URLs tested in this scan
    user,           \* screen_name of the item being processed
    urlsLeft,       \* URLs of that item still to test
    entry,          \* main's json_entry, once the tweet is sent
    pulled,         \* observation: the items the scan pulled, in order
    sources,        \* observation: for each accepted entry, its item's index
    lastTest        \* observation: the last test_query call and its outcome

vars == <<now, log, winners, posts, runs, pc, args, lastExit, caller,
          valid_entries, steps, user, urlsLeft, entry, pulled, sources, lastTest>>

scanVars == <<valid_entries, steps, user, urlsLeft, pulled, sources, lastTest>>

RateLimitCode == 88
Codes == {RateLimitCode, 32}

NoArgs == [results |-> FALSE, force_new |-> FALSE]
NoEntry == [tweet_id |-> -1, cards |-> <<"A", "A">>]
NoTest == [called |-> FALSE, url |-> [scryfall |-> FALSE, hasQ |-> FALSE, q |-> NoQuery, resp |-> ErrorResp],
           out |-> Returned(<<>>)]

TweetItem(u) == [kind |-> "tweet", user |-> u, code |-> 0]
MessageItem(c) == [kind |-> "message", user |-> "", code |-> c]
OtherItem == [kind |-> "other", user |-> "", code |-> 0]

Init ==
    /\ now = <<0, 0>>
    /\ log = EmptyDb
    /\ winners = EmptyDb
    /\ posts = 0
    /\ runs = 0
    /\ pc = "idle"
    /\ args = NoArgs
    /\ lastExit = "none"
    /\ caller = "none"
    /\ valid_entries = <<>>
    /\ steps = 0
    /\ user = ""
    /\ urlsLeft = 0
    /\ entry = NoEntry
    /\ pulled = <<>>
    /\ sources = <<>>
    /\ lastTest = NoTest

\* The clock moves on by one second, whatever the script is doing (once no
\* invocation is left to run, its reading is read by nothing).
Tick ==
    /\ pc = "idle" => runs < MaxRuns
    /\ Secs(now) < MaxClock
    /\ \/ /\ now[2] + 1 < SecPerDay
          /\ now' = <<now[1], now[2] + 1>>
       \/ /\ now[2] + 1 = SecPerDay
          /\ now' = <<now[1] + 1, 0>>
    /\ UNCHANGED <<log, winners, posts, runs, pc, args, lastExit, caller, entry>>
    /\ UNCHANGED scanVars

\* get_results starts: valid_entries = list(), the pager is created.
BeginScan(c) ==
    /\ pc' = "scan"
    /\ caller' = c
    /\ valid_entries' = <<>>
    /\ steps' = 0
    /\ user' = ""
    /\ urlsLeft' = 0
    /\ pulled' = <<>>
    /\ sources' = <<>>
    /\ lastTest' = NoTest

\* The process ends: exit(0), the end of the script, or an uncaught error.
Exit(status) ==
    /\ pc' = "idle"
    /\ lastExit' = status
    /\ args' = NoArgs
    /\ caller' = "none"

\* __main__: parse the flags; --results runs get_results first.
Invoke(results, force) ==
    /\ pc = "idle"
    /\ runs < MaxRuns
    /\ runs' = runs + 1
    /\ args' = [results |-> results, force_new |-> force]
    /\ lastExit' = "running"
    /\ IF results
       THEN BeginScan("cli")
       ELSE /\ pc' = "gate"
            /\ UNCHANGED caller
            /\ UNCHANGED scanVars
    /\ UNCHANGED <<now, log, winners, posts, entry>>

\* ------------------------------------------------------------ get_results
\* The two breaks of the loop over the pager's items.
StopsAfterTweet(u) == u = TWEETER_ACCOUNT

\* Variant: the rate-limit message does not end the loop.
StopsOnMessageNever(c) == FALSE
StopsOnMessage(c) == c = RateLimitCode

\* The entry get_results appends for an accepted query.
ResultEntry(u, text) == [name |-> u, length |-> Len(text), query |-> text]

\* The scan's locals once the scan is over (or the process is gone).
DropScanLocals ==
    /\ valid_entries' = <<>>
    /\ steps' = 0
    /\ user' = ""
    /\ urlsLeft' = 0

\* The iterator yields its next item.  obs: whether the observation
\* variables record it.
PullItem(obs) ==
    /\ pc = "scan"
    /\ steps < MaxScanSteps
    /\ steps' = steps + 1
    /\ \/ \E u \in Users, n \in 0..(MaxScanSteps - steps - 1) :
             \* 'text' in item, with n entities.urls
             /\ pulled' = IF obs THEN Append(pulled, TweetItem(u)) ELSE pulled
             /\ IF n > 0
                THEN /\ pc' = "urls"
                     /\ user' = u
                     /\ urlsLeft' = n
                ELSE /\ pc' = IF StopsAfterTweet(u) THEN "scanned" ELSE "scan"
                     /\ UNCHANGED <<user, urlsLeft>>
       \/ \E c \in Codes :
             \* 'message' in item, with its code
             /\ pulled' = IF obs THEN Append(pulled, MessageItem(c)) ELSE pulled
             /\ pc' = IF StopsOnMessage(c) THEN "scanned" ELSE "scan"
             /\ UNCHANGED <<user, urlsLeft>>
       \/ \* neither 'text' nor 'message': skipped
          /\ pulled' = IF obs THEN Append(pulled, OtherItem) ELSE pulled
          /\ pc' = "scan"
          /\ UNCHANGED <<user, urlsLeft>>
    /\ UNCHANGED <<now, log, winners, posts, runs, args, lastExit, caller, entry,
                   valid_entries, sources, lastTest>>

\* One pass of the loop over the item's URLs; after the last one, the
\* check for the bot's own account.  The URL is any of Urls; the step is
\* written over the distinct (outcome, observation) pairs the URLs give.
TestUrl(obs) ==
    /\ pc = "urls"
    /\ LET latest == LatestCards(log)
           tests == {[out |-> IF url.scryfall THEN test_query(url, latest) ELSE Returned(<<>>),
                      seen |-> IF obs /\ url.scryfall
                               THEN [called |-> TRUE, url |-> url, out |-> test_query(url, latest)]
                               ELSE lastTest] : url \in Urls}
       IN \E t \in tests :
         /\ lastTest' = t.seen
         /\ IF t.out.raised
            THEN /\ Exit("ValueError")
                 /\ DropScanLocals
                 /\ UNCHANGED sources
            ELSE /\ valid_entries' = IF Len(t.out.text) > 0
                                     THEN Append(valid_entries, ResultEntry(user, t.out.text))
                                     ELSE valid_entries
                 /\ sources' = IF obs /\ Len(t.out.text) > 0
                               THEN Append(sources, Len(pulled))
                               ELSE sources
                 /\ steps' = steps + 1
                 /\ urlsLeft' = urlsLeft - 1
                 /\ pc' = IF urlsLeft > 1 THEN "urls"
                          ELSE IF StopsAfterTweet(user) THEN "scanned"
                          ELSE "scan"
                 /\ UNCHANGED <<user, lastExit, args, caller>>
    /\ UNCHANGED <<now, log, winners, posts, runs, entry, pulled>>

\* The iterator is exhausted.
EndStream ==
    /\ pc = "scan"
    /\ pc' = "scanned"
    /\ UNCHANGED <<now, log, winners, posts, runs, args, lastExit, caller, entry>>
    /\ UNCHANGED scanVars

\* write_results(results): the winners file of the log's maximum key.
WriteResults ==
    /\ pc = "scanned"
    /\ IF DOMAIN log = {}
       THEN /\ Exit("ValueError")                     \* max() of no keys
            /\ UNCHANGED winners
       ELSE /\ winners' = WriteList(winners, MaxKey(log), valid_entries)
            /\ pc' = IF caller = "cli" THEN "gate" ELSE "start"
            /\ caller' = "none"
            /\ UNCHANGED <<lastExit, args>>
    /\ DropScanLocals
    /\ UNCHANGED <<now, log, posts, runs, entry, pulled, sources, lastTest>>

\* ------------------------------------------------------------------ main
\* is_active_contest_already up to its return or its call of the results
\* flow: "empty" (ValueError caught, returns False), "active" (returns
\* True), "over" (get_results and write_results run, then it returns False).
StillOpen(start, t) == TimeLess(t, PlusOneDay(start))

ContestState(db, t) ==
    IF DOMAIN db = {} THEN "empty"
    ELSE IF StillOpen(strptime(MaxKey(db)), t) THEN "active"
    ELSE "over"

\* main's first statement: `if not force_new and is_active_contest_already()`.
\* Variant: the gate is skipped whatever the flag.
SkipsGateAlways(force) == TRUE
SkipsGate(force) == force

\* Variant: a concluded contest is passed over without the results flow.
OverSkipsResults ==
    /\ pc' = "start"
    /\ UNCHANGED caller
    /\ UNCHANGED scanVars
OverToResults == BeginScan("gate")

MainGate ==
    /\ pc = "gate"
    /\ IF SkipsGate(args.force_new)
       THEN /\ pc' = "start"
            /\ UNCHANGED <<lastExit, caller, args>>
            /\ UNCHANGED scanVars
       ELSE CASE ContestState(log, now) = "empty" ->
                    /\ pc' = "start"
                    /\ UNCHANGED <<lastExit, caller, args>>
                    /\ UNCHANGED scanVars
              [] ContestState(log, now) = "active" ->
                    /\ Exit("exit0")
                    /\ UNCHANGED scanVars
              [] ContestState(log, now) = "over" ->
                    /\ OverToResults
                    /\ UNCHANGED <<lastExit, args>>
    /\ UNCHANGED <<now, log, winners, posts, runs, entry>>

\* main, from delete_temp_cards to send_tweet: two random cards are drawn,
\* their images merged, the tweet sent; json_entry holds what came back.
FetchAndPost ==
    /\ pc = "start"
    /\ \E cards \in RandomPairs, id \in TweetIds :
         entry' = [tweet_id |-> id, cards |-> cards]
    /\ posts' = posts + 1
    /\ pc' = "write"
    /\ UNCHANGED <<now, log, winners, runs, args, lastExit, caller>>
    /\ UNCHANGED scanVars

\* main's last statement: write_to_json_db(TWEET_DATABASE, json_entry).
WriteEntry ==
    /\ pc = "write"
    /\ log' = WriteDict(log, now, entry)
    /\ entry' = NoEntry
    /\ Exit("done")
    /\ UNCHANGED <<now, winners, posts, runs>>
    /\ UNCHANGED scanVars

\* ------------------------------------------------------- specifications
Next ==
    \/ Tick
    \/ \E results \in BOOLEAN, force \in BOOLEAN : Invoke(results, force)
    \/ PullItem(FALSE)
    \/ TestUrl(FALSE)
    \/ EndStream
    \/ WriteResults
    \/ MainGate
    \/ FetchAndPost
    \/ WriteEntry

Spec == Init /\ [][Next]_vars

\* get_results alone, on each log a scan can find: no log, or one contest.
InitScan ==
    /\ now = <<0, 0>>
    /\ log \in {EmptyDb} \cup {WriteDict(EmptyDb, <<0, 0>>, e) : e \in Entries}
    /\ winners = EmptyDb
    /\ posts = 0
    /\ runs = 1
    /\ pc = "scan"
    /\ args = [results |-> TRUE, force_new |-> FALSE]
    /\ lastExit = "running"
    /\ caller = "cli"
    /\ valid_entries = <<>>
    /\ steps = 0
    /\ user = ""
    /\ urlsLeft = 0
    /\ entry = NoEntry
    /\ pulled = <<>>
    /\ sources = <<>>
    /\ lastTest = NoTest

NextScan ==
    \/ PullItem(TRUE)
    \/ TestUrl(TRUE)
    \/ EndStream

SpecScan == InitScan /\ [][NextScan]_vars

\* is_active_contest_already and main's gate alone, on each log and clock
\* reading the script can meet: up to MaxRuns contests, none started after
\* the present reading.
ClockReadings == {t \in (0..MaxClock) \X (0..(SecPerDay - 1)) : Secs(t) <= MaxClock}

PastKeys(t) == {strftime(u) : u \in {v \in ClockReadings : ~TimeLess(t, v)}}

LogsBefore(t) ==
    UNION {[K -> Entries] : K \in {S \in SUBSET PastKeys(t) : Cardinality(S) <= MaxRuns}}

InitGate ==
    /\ now \in ClockReadings
    /\ log \in LogsBefore(now)
    /\ winners = EmptyDb
    /\ posts = 0
    /\ runs = 1
    /\ pc = "gate"
    /\ args \in [results : {FALSE}, force_new : BOOLEAN]
    /\ lastExit = "running"
    /\ caller = "none"
    /\ valid_entries = <<>>
    /\ steps = 0
    /\ user = ""
    /\ urlsLeft = 0
    /\ entry = NoEntry
    /\ pulled = <<>>
    /\ sources = <<>>
    /\ lastTest = NoTest

SpecGate == InitGate /\ [][MainGate]_vars

\* ------------------------------------------------------- properties
\* The start time of the latest contest of a non-empty log, by the clock.
LatestStart(db) ==
    CHOOSE t \in {strptime(k) : k \in DOMAIN db} :
        \A k \in DOMAIN db : Secs(strptime(k)) <= Secs(t)

\* Seconds from the latest contest's start to the reading t.
Elapsed(db, t) == Secs(t) - Secs(LatestStart(db))

\* The step in which main evaluates its gate.
GateStep == pc = "gate" /\ pc' # "gate"

\* The step in which main writes its entry to the log.
WriteStep == pc = "write" /\ pc' = "idle"

\* C1: on a non-empty log, is_active_contest_already answers by the latest
\* contest's start and the clock alone: true (main exits) when less than 24
\* hours have passed since it, false by way of the results flow when more
\* than 24 hours have passed.
C1_LivenessByLatestStart ==
    [][(GateStep /\ ~args.force_new /\ DOMAIN log # {}) =>
         /\ Elapsed(log, now) < SecPerDay => (pc' = "idle" /\ lastExit' = "exit0")
         /\ Elapsed(log, now) > SecPerDay => (pc' = "scan" /\ caller' = "gate")]_vars

C1_Witness ==
    /\ lastExit = "exit0"
    /\ Cardinality(DOMAIN log) >= 2
    /\ Elapsed(log, now) < SecPerDay

\* Whether a URL's query is a winning one for the latest contest of db, in
\* the words of the specification: a query parameter, a search result of
\* exactly two cards carrying the contest's two names, and no 'or' in the
\* query in any letter case.
ShouldAccept(url, db) ==
    /\ url.hasQ
    /\ ~url.resp.error
    /\ url.resp.total_cards = 2
    /\ url.resp.names = SeqRange(db[MaxKey(db)].cards)
    /\ ~ContainsOr(Lower(url.q))

\* C2: with a contest in the log, test_query returns the query text when
\* the query is a winning one, and the empty string in every other case.
C2_AcceptsExactlyWinningQueries ==
    (lastTest.called /\ DOMAIN log # {}) =>
        /\ ~lastTest.out.raised
        /\ lastTest.out.text = IF ShouldAccept(lastTest.url, log) THEN lastTest.url.q ELSE <<>>

\* C3: a write of a contest entry keeps every earlier entry as it was and
\* adds the new one under the key of the clock's reading, so the log grows
\* by one entry with each write.
C3_WritesOnlyAppend ==
    [][WriteStep =>
         /\ \A k \in DOMAIN log : k \in DOMAIN log' /\ log'[k] = log[k]
         /\ strftime(now) \in DOMAIN log' /\ log'[strftime(now)] = entry
         /\ Cardinality(DOMAIN log') = Cardinality(DOMAIN log) + 1]_vars

\* C4: an un-forced run that finds the latest contest less than 24 hours old
\* exits at once, with the log, the winners files and the posts as they
\* were; a forced run goes on to start a contest; the first write, to an
\* empty log, leaves exactly one entry; an un-forced run writes an entry
\* only when the log is empty or its latest contest is over; and nothing
\* but main's write changes the log.
C4_GateKeepsActiveContest ==
    [][/\ (GateStep /\ ~args.force_new /\ DOMAIN log # {} /\ Elapsed(log, now) < SecPerDay) =>
            (pc' = "idle" /\ lastExit' = "exit0" /\ UNCHANGED <<log, winners, posts>>)
       /\ (GateStep /\ args.force_new) => (pc' = "start" /\ log' = log)
       /\ (WriteStep /\ DOMAIN log = {}) => Cardinality(DOMAIN log') = 1
       /\ (WriteStep /\ ~args.force_new) =>
            (log' # log /\ (DOMAIN log = {} \/ Elapsed(log, now) >= SecPerDay))
       /\ log' # log => WriteStep]_vars

C4_Witness ==
    /\ lastExit = "exit0"
    /\ runs = 2
    /\ posts = 1
    /\ Cardinality(DOMAIN log) = 1
    /\ Elapsed(log, now) < SecPerDay

\* C5: a winners file, once it exists, keeps its contents, and a winners
\* file comes into existence only when 24 hours have passed since the
\* start of the contest it is named by.
C5_ResultsWrittenOnceAtClose ==
    [][\A k \in DOMAIN winners' :
         IF k \in DOMAIN winners
         THEN winners'[k] = winners[k]
         ELSE Secs(now) - Secs(strptime(k)) >= SecPerDay]_vars

\* C6: every contest of the log that a later contest has superseded has its
\* winners file, and every winners file is named by a contest of the log.
C6_EveryConcludedContestHasResults ==
    /\ \A k \in DOMAIN log : k # MaxKey(log) => k \in DOMAIN winners
    /\ DOMAIN winners \subseteq DOMAIN log

\* C7: in an un-forced run that finds the latest contest over, the gate
\* calls the results flow; that flow, with the log untouched, writes the
\* scan's list to the winners file of the concluded contest and only then
\* lets main go on; and when main writes the next entry the concluded
\* contest's winners file is there and the entry goes under a new key.
C7_ResultsBeforeNextContest ==
    [][/\ (GateStep /\ ~args.force_new /\ DOMAIN log # {} /\ Elapsed(log, now) >= SecPerDay) =>
            (pc' = "scan" /\ caller' = "gate" /\ UNCHANGED <<log, winners>>)
       /\ caller = "gate" => log' = log
       /\ (caller = "gate" /\ pc = "scanned" /\ pc' # "scanned") =>
            /\ pc' = "start"
            /\ MaxKey(log) \in DOMAIN winners'
            /\ winners'[MaxKey(log)] =
                  (IF MaxKey(log) \in DOMAIN winners THEN winners[MaxKey(log)] ELSE <<>>)
                  \o valid_entries
       /\ (WriteStep /\ ~args.force_new /\ DOMAIN log # {}) =>
            /\ strptime(MaxKey(log)) = LatestStart(log)
            /\ MaxKey(log) \in DOMAIN winners
            /\ strftime(now) # MaxKey(log)]_vars

C7_Witness ==
    /\ pc = "write"
    /\ ~args.force_new
    /\ ~args.results
    /\ DOMAIN log # {}
    /\ MaxKey(log) \in DOMAIN winners
    /\ winners[MaxKey(log)] # <<>>

\* C8: the gate on an empty log goes on to start a contest without a scan
\* and without writing a file, and no invocation ends in an uncaught
\* error while the log is empty.
C8_EmptyLogNeverFails ==
    [][/\ (GateStep /\ ~args.force_new /\ DOMAIN log = {}) =>
            (pc' = "start" /\ UNCHANGED <<log, winners>>)
       /\ DOMAIN log = {} => lastExit' # "ValueError"]_vars

\* An item at which the scan is to stop: a tweet of the bot's own account,
\* or the rate-limit message.
IsStopper(item) ==
    \/ item.kind = "tweet" /\ item.user = TWEETER_ACCOUNT
    \/ item.kind = "message" /\ item.code = 88

C10_EveryStartAppendsOneEntry ==
    [][WriteStep =>
         /\ Cardinality(DOMAIN log') = Cardinality(DOMAIN log) + 1
         /\ log'[strftime(now)].tweet_id = entry.tweet_id
         /\ LatestStart(log') = now]_vars
====
